---- MODULE Spec2Model ----
(***************************************************************************)
(* Model of the ingestion-and-fan-out pipeline of mono-earthquake:         *)
(* KoeriParser / EarthquakeDatabase.insert_earthquakes (the event store),  *)
(* refresh_earthquake_data / polling_service (the scheduler),              *)
(* send_notifications_to_webhooks (channel fan-out) and send_wa_template   *)
(* (subscription fan-out).                                                 *)
(***************************************************************************)
EXTENDS Integers, Sequences, FiniteSets, TLC

(***************************************************************************)
(* Bounds of the model.                                                    *)
(***************************************************************************)
MaxBatch == 2
MaxTs == 2
MaxAdmin == 1
MaxUrl == 3
MaxLines == 3

(* parser.py:138-144: a magnitude that is not reported is None.            *)
NoMag == -1

Timestamps == 1..MaxTs
(* <<latitude, longitude>> of the places events happen at: two share the   *)
(* latitude, two the longitude.                                            *)
Places == {<<1, 1>>, <<1, 2>>, <<2, 1>>}
Depths == {1, 2}
Thresholds == {1, 2}
Mags == {NoMag} \cup Thresholds

Channels == {"c1", "c2"}
PollNames == {"p1", "p2"}
Phones == {"u1", "u2"}
NoPoll == "none"

(* One parsed feed row / one row of table earthquakes.  ts stands for the  *)
(* ISO-8601 timestamp string (fixed width, so string order is time order). *)
Records ==
    {[ts |-> t, lat |-> pl[1], lon |-> pl[2], depth |-> d, mag |-> m] :
        t \in Timestamps, pl \in Places, d \in Depths, m \in Mags}

(* The natural key declared by the schema: UNIQUE(timestamp, latitude,     *)
(* longitude).                                                             *)
SameKey(a, b) == a.ts = b.ts /\ a.lat = b.lat /\ a.lon = b.lon

VARIABLES
    store,        \* rows of table earthquakes
    webhooks,     \* names of the rows of table webhooks
    lastSent,     \* webhooks.last_sent_at, per channel
    polls,        \* table polls: name -> min_magnitude
    waUsers,      \* table wa_users: phone_number -> poll_name
    userLastSent, \* wa_users.last_sent_at
    waMessages,   \* table wa_messages
    creds,        \* WA_NUMBER_ID and WA_API_TOKEN are both set
    pc,           \* where polling_service is
    epoch,        \* number of dispatches started: the clock of the stamps
    status,       \* "status" of the dict the last refresh returned
    batch,        \* latest_earthquakes, the batch handed to dispatch
    newSeq,       \* the records this cycle's insert added, in insertion order
    hooksSnap,    \* local `webhooks` of send_notifications_to_webhooks
    evIdx,        \* loop index i of send_notifications_to_webhooks (1-based)
    chanAttempts, \* the <<i, channel>> send_to_single_webhook ran for, in order
    chanOutcome,  \* what each send of the latest event did
    pollsSnap,    \* local `polls` of refresh_earthquake_data
    pollIdx,      \* loop index over pollsSnap (1-based)
    waLog,        \* calls of send_earthquake_template_to_user, this cycle
    pollLog,      \* calls of send_wa_template, this cycle
    adminLeft,    \* administrative commands still to come
    arg,          \* argument of the latest direct insert_earthquakes call
    ret           \* what that call returned

vars == <<store, webhooks, lastSent, polls, waUsers, userLastSent, waMessages,
          creds, pc, epoch, status, batch, newSeq, hooksSnap, evIdx,
          chanAttempts, chanOutcome, pollsSnap, pollIdx, waLog, pollLog,
          adminLeft, arg, ret>>

(***************************************************************************)
(* Event store.                                                            *)
(***************************************************************************)

(* database.py:439-441: the existence pre-check of insert_earthquakes.     *)
PreCheckHit(st, e) == \E r \in st : r.ts = e.ts

(* The INSERT on a table without the UNIQUE constraint.                    *)
InsertUnconstrained(st, e) == st \cup {e}

(* database.py:443-467 with the UNIQUE constraint of database.py:92:       *)
(* INSERT OR IGNORE adds the row unless the natural key is taken.          *)
InsertOrIgnore(st, e) ==
    IF \E r \in st : SameKey(r, e) THEN st ELSE st \cup {e}

(* insert_earthquakes without either duplicate test: every candidate is    *)
(* written and counted.                                                    *)
RECURSIVE InsertLoopNoDedup(_, _, _)
InsertLoopNoDedup(st, recs, counted) ==
    IF recs = <<>> THEN [store |-> st, inserted |-> counted]
    ELSE InsertLoopNoDedup(st \cup {Head(recs)}, Tail(recs),
                           Append(counted, Head(recs)))

(* insert_earthquakes taking a candidate for a duplicate only when the     *)
(* whole row is stored already.                                            *)
RECURSIVE InsertLoopWholeRow(_, _, _)
InsertLoopWholeRow(st, recs, counted) ==
    IF recs = <<>> THEN [store |-> st, inserted |-> counted]
    ELSE IF Head(recs) \in st
         THEN InsertLoopWholeRow(st, Tail(recs), counted)
         ELSE InsertLoopWholeRow(st \cup {Head(recs)}, Tail(recs),
                                 Append(counted, Head(recs)))

(* insert_earthquakes counting the candidates the pre-check skips as well. *)
RECURSIVE InsertLoopCountsSkipped(_, _, _)
InsertLoopCountsSkipped(st, recs, counted) ==
    IF recs = <<>> THEN [store |-> st, inserted |-> counted]
    ELSE LET e == Head(recs)
             st2 == IF PreCheckHit(st, e) THEN st ELSE InsertOrIgnore(st, e)
         IN InsertLoopCountsSkipped(st2, Tail(recs), Append(counted, e))

(* database.py:429-479: the loop of insert_earthquakes over the batch.     *)
(* Returns the store and the sequence of the records that were counted.    *)
RECURSIVE InsertLoop(_, _, _)
InsertLoop(st, recs, counted) ==
    IF recs = <<>> THEN [store |-> st, inserted |-> counted]
    ELSE LET e == Head(recs)
         IN IF PreCheckHit(st, e)
            THEN InsertLoop(st, Tail(recs), counted)
            ELSE LET st2 == InsertOrIgnore(st, e)
                 IN InsertLoop(st2, Tail(recs),
                               IF st2 # st THEN Append(counted, e) ELSE counted)

(* database.py:412-483 *)
InsertEarthquakes(st, recs) ==
    IF recs = <<>> THEN [store |-> st, inserted |-> <<>>]
    ELSE InsertLoop(st, recs, <<>>)

(* database.py:499-503: ORDER BY timestamp DESC.  Among rows of equal      *)
(* timestamp SQLite may return any order; the store never holds two.       *)
Newest(st) == CHOOSE r \in st : \A q \in st : q.ts <= r.ts

(* database.py:485-510 *)
RECURSIVE GetLatestEarthquakes(_, _)
GetLatestEarthquakes(st, limit) ==
    IF limit = 0 \/ st = {} THEN <<>>
    ELSE LET r == Newest(st)
         IN <<r>> \o GetLatestEarthquakes(st \ {r}, limit - 1)

Range(s) == {s[i] : i \in 1..Len(s)}

BoundedSeq(S, n) == UNION {[1..k -> S] : k \in 0..n}

(* States the store can be in: every row came through the pre-check, so no *)
(* two rows share a timestamp.                                             *)
StoresOver(R) ==
    UNION {{ {f[t] : t \in T} : f \in {g \in [T -> R] : \A t \in T : g[t].ts = t} }
           : T \in SUBSET Timestamps}

(***************************************************************************)
(* The registries, in the order their SELECTs return them (ORDER BY name). *)
(***************************************************************************)
ChannelOrder == <<"c1", "c2">>
PollOrder == <<"p1", "p2">>
UserOrder == <<"u1", "u2">>

RECURSIVE Keep(_, _)
Keep(s, S) ==
    IF s = <<>> THEN <<>>
    ELSE (IF Head(s) \in S THEN <<Head(s)>> ELSE <<>>) \o Keep(Tail(s), S)

(* database.py:814-836 *)
GetWebhooks(reg) == Keep(ChannelOrder, reg)

(* database.py:902-924 *)
GetPolls(reg) == Keep(PollOrder, DOMAIN reg)

(* database.py:1013-1035: every row of wa_users, whatever its poll_name.   *)
GetWaUsers(reg) == Keep(UserOrder, DOMAIN reg)

NullStamp == <<0, 0>>

(***************************************************************************)
(* Channel fan-out.                                                        *)
(***************************************************************************)
Outcomes == {"ok", "fail", "throw"}

(* send_to_single_webhook without its except clause: what the adapter      *)
(* throws leaves it.                                                       *)
SendToSingleWebhookRaises(o) ==
    CASE o = "ok" -> "true"
      [] o = "fail" -> "false"
      [] o = "throw" -> "raise"

(* send_to_single_webhook reporting success whatever the adapter returned. *)
SendToSingleWebhookOptimistic(o) ==
    CASE o = "ok" -> "true"
      [] o = "fail" -> "true"
      [] o = "throw" -> "false"

(* main.py:176-201: what send_to_single_webhook does with one send:        *)
(* "true"/"false" is its return value, "raise" an exception leaving it.    *)
SendToSingleWebhook(o) ==
    CASE o = "ok" -> "true"
      [] o = "fail" -> "false"
      [] o = "throw" -> "false"

(***************************************************************************)
(* Subscription fan-out.                                                   *)
(***************************************************************************)
WaOutcomes == {"ok", "fail"}

(* The threshold test with the boundary on the wrong side.                 *)
BelowThresholdInclusive(min, mag) == min >= mag

(* polls.py:34: the threshold test; None on either side is a TypeError.    *)
BelowThreshold(min, mag) == min > mag

(* Recipients kept from an earlier read instead of read from the registry. *)
RecipientsCached(reg, p) == UserOrder

(* polls.py:40-48: the recipients send_wa_template sends to.               *)
Recipients(reg, p) == GetWaUsers(reg)

(* send_wa_template skipping the threshold test when the event has no      *)
(* magnitude.                                                              *)
SendWaTemplateUngated(p, data, pollReg, userReg, haveCreds) ==
    IF ~haveCreds THEN [end |-> "exit", to |-> <<>>]
    ELSE IF p \notin DOMAIN pollReg THEN [end |-> "exit", to |-> <<>>]
    ELSE IF data[1].mag # NoMag /\ BelowThreshold(pollReg[p], data[1].mag)
         THEN [end |-> "gated", to |-> <<>>]
    ELSE [end |-> "sent", to |-> Recipients(userReg, p)]

(* polls.py:12-57: how send_wa_template(p, earthquake_data) ends, and the  *)
(* recipients it calls send_earthquake_template_to_user for.               *)
(*   "exit"   sys.exit(1): SystemExit leaves the function                  *)
(*   "gated"  the event is below the threshold, return                     *)
(*   "sent"   the loop over the recipients ran                             *)
SendWaTemplate(p, data, pollReg, userReg, haveCreds) ==
    IF ~haveCreds THEN [end |-> "exit", to |-> <<>>]
    ELSE IF p \notin DOMAIN pollReg THEN [end |-> "exit", to |-> <<>>]
    ELSE IF data[1].mag = NoMag THEN [end |-> "exit", to |-> <<>>]
    ELSE IF BelowThreshold(pollReg[p], data[1].mag) THEN [end |-> "gated", to |-> <<>>]
    ELSE [end |-> "sent", to |-> Recipients(userReg, p)]

(***************************************************************************)
(* The scheduler: polling_service and refresh_earthquake_data.             *)
(***************************************************************************)

(* What one fetch of the feed gives: the rows parse_data returns.  The     *)
(* pipeline is driven with rows of one place and depth, and a feed lists   *)
(* an event once.                                                          *)
FeedRecords == {r \in Records : r.lat = 1 /\ r.lon = 1 /\ r.depth = 1}
FeedBatches(F) ==
    {b \in BoundedSeq(F, MaxBatch) :
        \A i, j \in 1..Len(b) : b[i].ts = b[j].ts => i = j}

(* How the fetch, the parse and the insert of a cycle go: "fetch_error" is  *)
(* parser.py:49-50, "parse_error" the ValueError of parser.py:64-78 that   *)
(* get_earthquakes turns into [], "store_error" database.py:481-483.       *)
FeedKinds == {"ok", "fetch_error", "parse_error", "store_error"}

registry == <<webhooks, lastSent, polls, waUsers, userLastSent, waMessages>>
chanLocals == <<hooksSnap, evIdx, chanAttempts, chanOutcome>>
pollLocals == <<pollsSnap, pollIdx, waLog, pollLog>>
direct == <<arg, ret>>

(* main.py:73-91: channel fan-out is over; refresh_earthquake_data reads   *)
(* the polls and starts its loop over them.                                *)
EnterPolls ==
    /\ pollsSnap' = GetPolls(polls)
    /\ IF DOMAIN polls = {}
       THEN pc' = "done" /\ status' = "success" /\ pollIdx' = 0
       ELSE pc' = "polls" /\ status' = status /\ pollIdx' = 1

(* main.py:55-71 and 112-129, up to the first gather: one cycle fetches,   *)
(* parses, inserts, reads the latest new_records rows and the webhooks.    *)
Refresh(kind, feed) ==
    /\ pc = "idle"
    /\ UNCHANGED <<registry, creds, adminLeft, direct, waLog, pollLog>>
    /\ kind # "ok" => feed = <<>>
    /\ IF kind \in {"fetch_error", "store_error"}
       THEN /\ pc' = "done"
            /\ status' = "error"
            /\ UNCHANGED <<store, epoch, batch, newSeq, chanLocals, pollsSnap, pollIdx>>
       ELSE LET r == InsertEarthquakes(store, feed)
                new_records == Len(r.inserted)
            IN /\ store' = r.store
               /\ newSeq' = r.inserted
               /\ UNCHANGED <<chanAttempts, chanOutcome>>
               /\ IF new_records > 0
                  THEN /\ epoch' = epoch + 1
                       /\ batch' = GetLatestEarthquakes(r.store, new_records)
                       /\ hooksSnap' = webhooks
                       /\ IF webhooks = {}
                          THEN evIdx' = 0 /\ EnterPolls
                          ELSE /\ evIdx' = 1
                               /\ pc' = "fanout"
                               /\ UNCHANGED <<status, pollsSnap, pollIdx>>
                  ELSE /\ pc' = "done"
                       /\ status' = "success"
                       /\ UNCHANGED <<epoch, batch, hooksSnap, evIdx, pollsSnap, pollIdx>>

(* A round that awaits the first of its tasks only: a coroutine that is    *)
(* never awaited never runs.                                               *)
TasksFirstOnly(i, hooks) ==
    IF hooks = <<>> THEN <<>> ELSE <<<<i, Head(hooks)>>>>

(* main.py:142-159: the tasks of one round, one per webhook, in order.     *)
RECURSIVE Tasks(_, _)
Tasks(i, hooks) ==
    IF hooks = <<>> THEN <<>> ELSE <<<<i, Head(hooks)>>>> \o Tasks(i, Tail(hooks))

(* A round that is followed by the pacing delay whether or not another     *)
(* event is left.                                                          *)
SendEventPacedAfterLast(o) ==
    /\ pc = "fanout"
    /\ lastSent' = [c \in Channels |->
                      IF c \in hooksSnap /\ c \in webhooks /\ o[c] = "ok"
                      THEN <<epoch, evIdx>> ELSE lastSent[c]]
    /\ chanAttempts' = chanAttempts \o Tasks(evIdx, GetWebhooks(hooksSnap))
    /\ chanOutcome' = o
    /\ pc' = "pace"
    /\ UNCHANGED <<store, webhooks, polls, waUsers, userLastSent, waMessages, creds,
                   epoch, status, batch, newSeq, hooksSnap, evIdx, pollLocals,
                   adminLeft, direct>>

(* main.py:132-163: one round of the loop: event evIdx goes to every       *)
(* webhook that was read, and the round is joined.                         *)
SendEvent(o) ==
    /\ pc = "fanout"
    /\ LET res == [c \in hooksSnap |-> SendToSingleWebhook(o[c])]
       IN /\ lastSent' = [c \in Channels |->
                            IF c \in hooksSnap /\ c \in webhooks /\ o[c] = "ok"
                            THEN <<epoch, evIdx>> ELSE lastSent[c]]
          /\ chanAttempts' = chanAttempts \o Tasks(evIdx, GetWebhooks(hooksSnap))
          /\ chanOutcome' = o
          /\ IF \E c \in hooksSnap : res[c] = "raise"
             THEN EnterPolls
             ELSE IF evIdx < Len(batch)
                  THEN pc' = "pace" /\ UNCHANGED <<status, pollsSnap, pollIdx>>
                  ELSE EnterPolls
    /\ UNCHANGED <<store, webhooks, polls, waUsers, userLastSent, waMessages, creds,
                   epoch, batch, newSeq, hooksSnap, evIdx, waLog, pollLog,
                   adminLeft, direct>>

(* main.py:165-167: the pacing delay between two events.                   *)
Pace ==
    /\ pc = "pace"
    /\ pc' = "fanout"
    /\ evIdx' = evIdx + 1
    /\ UNCHANGED <<store, registry, creds, epoch, status, batch, newSeq, hooksSnap,
                   chanAttempts, chanOutcome, pollLocals, adminLeft, direct>>

(* polls.py:59-117: the sends of one send_wa_template call, recipient by   *)
(* recipient; o says what the transport answers to each.                   *)
RECURSIVE SendToUsers(_, _, _)
SendToUsers(to, p, o) ==
    IF to = <<>> THEN <<>>
    ELSE <<[poll |-> p, user |-> Head(to), ok |-> (o[Head(to)] = "ok")]>>
         \o SendToUsers(Tail(to), p, o)

(* main.py:79-85 with polls.py:12-57: one round of the loop over the       *)
(* polls.                                                                  *)
PollStep(o) ==
    /\ pc = "polls"
    /\ LET p == pollsSnap[pollIdx]
           r == SendWaTemplate(p, batch, polls, waUsers, creds)
           sends == SendToUsers(r.to, p, o)
           okUsers == {sends[i].user : i \in {j \in 1..Len(sends) : sends[j].ok}}
       IN /\ r.end # "sent" => o = [u \in Phones |-> "fail"]
          /\ \A u \in Phones \ Range(r.to) : o[u] = "fail"
          /\ waLog' = waLog \o sends
          /\ pollLog' = Append(pollLog,
                 [poll |-> p, end |-> r.end,
                  min |-> IF p \in DOMAIN polls THEN polls[p] ELSE NoMag,
                  assigned |-> {u \in DOMAIN waUsers : waUsers[u] = p},
                  others |-> {u \in DOMAIN waUsers : waUsers[u] # p}])
          /\ userLastSent' = [u \in Phones |->
                 IF u \in okUsers THEN <<epoch, pollIdx>> ELSE userLastSent[u]]
          /\ waMessages' = waMessages \cup
                 {[user |-> u, poll |-> p, at |-> epoch] : u \in okUsers}
          /\ IF r.end = "exit"
             THEN pc' = "exited" /\ UNCHANGED <<status, pollIdx>>
             ELSE IF pollIdx < Len(pollsSnap)
                  THEN pc' = "polls" /\ pollIdx' = pollIdx + 1 /\ UNCHANGED status
                  ELSE pc' = "done" /\ status' = "success" /\ UNCHANGED pollIdx
    /\ UNCHANGED <<store, webhooks, lastSent, polls, waUsers, creds, epoch, batch,
                   newSeq, chanLocals, pollsSnap, adminLeft, direct>>

(* A scheduler that starts the cycle as a task of its own and sleeps       *)
(* without awaiting it.                                                    *)
SleepUnawaited ==
    /\ pc \in {"fanout", "pace", "polls", "done"}
    /\ pc' = "idle"
    /\ status' = "none"
    /\ batch' = <<>>
    /\ newSeq' = <<>>
    /\ hooksSnap' = {}
    /\ evIdx' = 0
    /\ chanAttempts' = <<>>
    /\ chanOutcome' = <<>>
    /\ pollsSnap' = <<>>
    /\ pollIdx' = 0
    /\ waLog' = <<>>
    /\ pollLog' = <<>>
    /\ UNCHANGED <<store, registry, creds, epoch, adminLeft, direct>>

(* main.py:215-222: refresh_earthquake_data has returned and its locals    *)
(* are gone; the loop sleeps for poll_interval.                            *)
Sleep ==
    /\ pc = "done"
    /\ pc' = "idle"
    /\ status' = "none"
    /\ batch' = <<>>
    /\ newSeq' = <<>>
    /\ hooksSnap' = {}
    /\ evIdx' = 0
    /\ chanAttempts' = <<>>
    /\ chanOutcome' = <<>>
    /\ pollsSnap' = <<>>
    /\ pollIdx' = 0
    /\ waLog' = <<>>
    /\ pollLog' = <<>>
    /\ UNCHANGED <<store, registry, creds, epoch, adminLeft, direct>>

(***************************************************************************)
(* Receipts (table wa_messages) and their retention sweep.                 *)
(***************************************************************************)
SamePair(a, b) == a.poll = b.poll /\ a.user = b.user

(* The sweep grouping the receipts by recipient alone.                     *)
ClearOldWaMessagesPerUser(msgs) ==
    {m \in msgs : \A q \in msgs : q.user = m.user => q.at <= m.at}

(* database.py:212-251: of the receipts ordered by poll_name, wa_user_id   *)
(* and created_at DESC the first of every (poll_name, wa_user_id) is kept  *)
(* and the others are deleted.                                             *)
ClearOldWaMessages(msgs) ==
    {m \in msgs : \A q \in msgs : SamePair(q, m) => q.at <= m.at}

(* main.py:241-282: a status callback of the messaging platform; the       *)
(* handler runs on the event loop of the service, so not inside the loop   *)
(* over the polls, which never awaits.                                     *)
WaCallback ==
    /\ pc \in {"idle", "fanout", "pace", "done"}
    /\ waMessages' = ClearOldWaMessages(waMessages)
    /\ UNCHANGED <<store, webhooks, lastSent, polls, waUsers, userLastSent, creds,
                   pc, epoch, status, batch, newSeq, hooksSnap, evIdx,
                   chanAttempts, chanOutcome, pollsSnap, pollIdx, waLog, pollLog,
                   adminLeft, arg, ret>>

(***************************************************************************)
(* Administration (manage.py), a process of its own beside the service.    *)
(***************************************************************************)
AdminCan == pc \notin {"exited", "direct"} /\ adminLeft > 0

pipeline == <<pc, epoch, status, batch, newSeq, chanLocals, pollLocals>>

(* manage.py:49-64, database.py:728-762.  A channel is not registered anew *)
(* while a dispatch that read its old row is under way.                    *)
WebhookAdd(c) ==
    /\ AdminCan
    /\ c \notin webhooks /\ c \notin hooksSnap
    /\ webhooks' = webhooks \cup {c}
    /\ lastSent' = [lastSent EXCEPT ![c] = NullStamp]
    /\ adminLeft' = adminLeft - 1
    /\ UNCHANGED <<store, polls, waUsers, userLastSent, waMessages, creds,
                   pipeline, direct>>

(* manage.py:66-90, database.py:838-864 *)
WebhookRemove(c) ==
    /\ AdminCan
    /\ c \in webhooks
    /\ webhooks' = webhooks \ {c}
    /\ lastSent' = [lastSent EXCEPT ![c] = NullStamp]
    /\ adminLeft' = adminLeft - 1
    /\ UNCHANGED <<store, polls, waUsers, userLastSent, waMessages, creds,
                   pipeline, direct>>

(* manage.py:279-294, database.py:866-900 *)
PollAdd(p, min) ==
    /\ AdminCan
    /\ p \notin DOMAIN polls
    /\ polls' = [q \in DOMAIN polls \cup {p} |-> IF q = p THEN min ELSE polls[q]]
    /\ adminLeft' = adminLeft - 1
    /\ UNCHANGED <<store, webhooks, lastSent, waUsers, userLastSent, waMessages,
                   creds, pipeline, direct>>

(* manage.py:296-314, database.py:953-979 *)
PollRemove(p) ==
    /\ AdminCan
    /\ p \in DOMAIN polls
    /\ polls' = [q \in DOMAIN polls \ {p} |-> polls[q]]
    /\ adminLeft' = adminLeft - 1
    /\ UNCHANGED <<store, webhooks, lastSent, waUsers, userLastSent, waMessages,
                   creds, pipeline, direct>>

(* manage.py:369-380, database.py:981-1011.  A phone number is registered  *)
(* anew only when no receipt of its old row is left.                       *)
WaUserAdd(u, pn) ==
    /\ AdminCan
    /\ u \notin DOMAIN waUsers
    /\ \A m \in waMessages : m.user # u
    /\ waUsers' = [v \in DOMAIN waUsers \cup {u} |-> IF v = u THEN pn ELSE waUsers[v]]
    /\ userLastSent' = [userLastSent EXCEPT ![u] = NullStamp]
    /\ adminLeft' = adminLeft - 1
    /\ UNCHANGED <<store, webhooks, lastSent, polls, waMessages, creds,
                   pipeline, direct>>

(* manage.py:382-413: DELETE ... WHERE phone_number = ? AND poll_name = ?  *)
(* removes a recipient only under the poll it is assigned to.              *)
WaUserRemove(u) ==
    /\ AdminCan
    /\ u \in DOMAIN waUsers
    /\ waUsers[u] # NoPoll
    /\ waUsers' = [v \in DOMAIN waUsers \ {u} |-> waUsers[v]]
    /\ userLastSent' = [userLastSent EXCEPT ![u] = NullStamp]
    /\ adminLeft' = adminLeft - 1
    /\ UNCHANGED <<store, webhooks, lastSent, polls, waMessages, creds,
                   pipeline, direct>>

(* Deleting the oldest row instead.                                        *)
DeleteOldest(st) ==
    IF st = {} THEN st ELSE st \ {CHOOSE r \in st : \A q \in st : r.ts <= q.ts}

(* database.py:1060-1085: DELETE ... WHERE id = (SELECT id ... ORDER BY    *)
(* timestamp DESC LIMIT 1); on an empty table nothing is deleted.          *)
DeleteLast(st) == IF st = {} THEN st ELSE st \ {Newest(st)}

(* manage.py:470-480: system remove-last-earthquake.                       *)
DeleteLastEarthquake ==
    /\ AdminCan
    /\ store' = DeleteLast(store)
    /\ adminLeft' = adminLeft - 1
    /\ UNCHANGED <<registry, creds, pipeline, direct>>

(***************************************************************************)
(* The service with its administration.                                    *)
(***************************************************************************)
InitLocals ==
    /\ epoch = 0
    /\ status = "none"
    /\ batch = <<>>
    /\ newSeq = <<>>
    /\ hooksSnap = {}
    /\ evIdx = 0
    /\ chanAttempts = <<>>
    /\ chanOutcome = <<>>
    /\ pollsSnap = <<>>
    /\ pollIdx = 0
    /\ waLog = <<>>
    /\ pollLog = <<>>

NoDirectCall == arg = <<>> /\ ret = <<>>

InitStamps ==
    /\ lastSent = [c \in Channels |-> NullStamp]
    /\ userLastSent = [u \in Phones |-> NullStamp]
    /\ waMessages = {}

(* The service starts on an empty store with one channel, one poll and one *)
(* recipient registered; administration changes the registries as it runs. *)
Init ==
    /\ InitLocals
    /\ InitStamps
    /\ NoDirectCall
    /\ pc = "idle"
    /\ store = {}
    /\ webhooks = {"c1"}
    /\ polls = [p \in {"p1"} |-> 1]
    /\ waUsers = [u \in {"u1"} |-> "p1"]
    /\ creds \in BOOLEAN
    /\ adminLeft = MaxAdmin

Cycle(F) ==
    \/ \E kind \in FeedKinds, feed \in FeedBatches(F) : Refresh(kind, feed)
    \/ Sleep

ChannelFanout ==
    \/ \E o \in [hooksSnap -> Outcomes] : SendEvent(o)
    \/ Pace

ChannelAdmin ==
    \/ \E c \in Channels : WebhookAdd(c)
    \/ \E c \in Channels : WebhookRemove(c)

StoreAdmin == DeleteLastEarthquake

PollAdmin ==
    \/ \E p \in PollNames, min \in Thresholds : PollAdd(p, min)
    \/ \E p \in PollNames : PollRemove(p)
    \/ \E u \in Phones, pn \in PollNames \cup {NoPoll} : WaUserAdd(u, pn)
    \/ \E u \in Phones : WaUserRemove(u)

Next ==
    \/ Cycle(FeedRecords)
    \/ ChannelFanout
    \/ \E o \in [Phones -> WaOutcomes] : PollStep(o)
    \/ ChannelAdmin
    \/ PollAdmin
    \/ StoreAdmin
    \/ WaCallback

Spec == Init /\ [][Next]_vars

(***************************************************************************)
(* Channel fan-out on its own: a service with no poll registered.          *)
(***************************************************************************)
(* The channels are sent every event alike, so one magnitude will do.      *)
ChanFeed == {r \in FeedRecords : r.mag = 1}

InitChan ==
    /\ InitLocals
    /\ InitStamps
    /\ NoDirectCall
    /\ pc = "idle"
    /\ store \in StoresOver(ChanFeed)
    /\ webhooks \in SUBSET Channels
    /\ polls = <<>>
    /\ waUsers = <<>>
    /\ creds = TRUE
    /\ adminLeft = MaxAdmin

NextChan == Cycle(ChanFeed) \/ ChannelFanout \/ ChannelAdmin \/ StoreAdmin

SpecChan == InitChan /\ [][NextChan]_vars

(***************************************************************************)
(* The service on a feed that is given: arg is what every fetch of the run *)
(* gets, how the fetch and the parse go and the rows that come out.        *)
(***************************************************************************)
GivenFeeds ==
    {g \in [kind : FeedKinds, feed : FeedBatches(ChanFeed)] :
        g.kind # "ok" => g.feed = <<>>}

InitGiven ==
    /\ InitLocals
    /\ InitStamps
    /\ arg \in GivenFeeds
    /\ ret = <<>>
    /\ pc = "idle"
    /\ store \in StoresOver(ChanFeed)
    /\ webhooks \in SUBSET Channels
    /\ polls = <<>>
    /\ waUsers = <<>>
    /\ creds = TRUE
    /\ adminLeft = 0

NextGiven ==
    \/ Refresh(arg.kind, arg.feed)
    \/ Sleep
    \/ ChannelFanout

SpecGiven == InitGiven /\ [][NextGiven]_vars

(***************************************************************************)
(* The service with a channel, a poll and a recipient registered, events   *)
(* that pass the threshold, and two administrative commands to come.       *)
(***************************************************************************)
InitRegistry ==
    /\ InitLocals
    /\ InitStamps
    /\ NoDirectCall
    /\ pc = "idle"
    /\ store = {}
    /\ webhooks = {"c1"}
    /\ polls = [p \in {"p1"} |-> 1]
    /\ waUsers = [u \in {"u1"} |-> "p1"]
    /\ creds = TRUE
    /\ adminLeft = 2

(* One new event per fetch will do: a fetch of one row, of two there are.  *)
RegistryFeeds == {<<r>> : r \in {q \in ChanFeed : q.ts <= 2}}

NextRegistry ==
    \/ \E feed \in RegistryFeeds : Refresh("ok", feed)
    \/ Sleep
    \/ \E o \in [hooksSnap -> Outcomes] : SendEvent(o)
    \/ \E o \in [Phones -> WaOutcomes] : PollStep(o)
    \/ ChannelAdmin
    \/ PollAdmin

SpecRegistry == InitRegistry /\ [][NextRegistry]_vars

(***************************************************************************)
(* Subscription fan-out on its own: a service with no webhook registered.  *)
(***************************************************************************)
InitPoll ==
    /\ InitLocals
    /\ InitStamps
    /\ NoDirectCall
    /\ pc = "idle"
    /\ store = {}
    /\ webhooks = {}
    /\ polls \in {[p \in {"p1"} |-> 1], [p \in PollNames |-> IF p = "p1" THEN 1 ELSE 2]}
    /\ waUsers \in {[u \in {"u1"} |-> "p1"], [u \in Phones |-> IF u = "u1" THEN "p1" ELSE "p2"]}
    /\ creds \in BOOLEAN
    /\ adminLeft = MaxAdmin

(* The polls look at the newest event of a batch only, so two timestamps   *)
(* will do: the newest and an older one.                                   *)
PollFeed == {r \in FeedRecords : r.ts <= 2}

NextPoll ==
    \/ Cycle(PollFeed)
    \/ \E o \in [Phones -> WaOutcomes] : PollStep(o)
    \/ PollAdmin
    \/ WaCallback

SpecPoll == InitPoll /\ [][NextPoll]_vars

(***************************************************************************)
(* insert_earthquakes on its own: a batch inserted into a store, and       *)
(* inserted again.                                                         *)
(***************************************************************************)
(* Depth is what two rows of one natural key differ in here; the magnitude  *)
(* is the same for all, and two timestamps will do: equal or not.          *)
InsertRecords == {r \in Records : r.mag = 1 /\ r.ts <= 2}

InitInsert ==
    /\ InitLocals
    /\ InitStamps
    /\ pc = "direct"
    /\ store \in StoresOver(InsertRecords)
    /\ arg \in BoundedSeq(InsertRecords, MaxBatch)
    /\ ret = <<>>
    /\ webhooks = {}
    /\ polls = <<>>
    /\ waUsers = <<>>
    /\ creds = TRUE
    /\ adminLeft = 0

(* parser.py:192-205 / database.py:412-483: insert_earthquakes(arg).       *)
InsertCall ==
    /\ pc \in {"direct", "once"}
    /\ pc' = IF pc = "direct" THEN "once" ELSE "twice"
    /\ LET r == InsertEarthquakes(store, arg)
       IN /\ store' = r.store
          /\ ret' = Append(ret, [count |-> Len(r.inserted),
                                 inserted |-> r.inserted,
                                 before |-> store,
                                 after |-> r.store])
    /\ UNCHANGED <<registry, creds, epoch, status, batch, newSeq, chanLocals,
                   pollLocals, adminLeft, arg>>

NextInsert == InsertCall

SpecInsert == InitInsert /\ [][NextInsert]_vars

(***************************************************************************)
(* insert_earthquakes on a batch that may hold records it cannot insert.   *)
(***************************************************************************)
(* What a candidate of the batch is: a record that has every field and a   *)
(* timestamp that is a date-time; a dict without one of the required keys; *)
(* or a record whose timestamp is no date-time, as parse_data composes it  *)
(* from a row such as "2025.13.45 25:61:61" (parser.py:94, 121-126).       *)
CandidateKinds == {"valid", "missing_field", "bad_timestamp"}

Candidates == [kind : CandidateKinds, rec : ChanFeed]

(* database.py:425-483.  A KeyError skips the candidate (472-474).  The    *)
(* ValueError of datetime.fromisoformat (433) is caught neither by the     *)
(* handlers of the loop (469-474) nor by `except sqlite3.Error` (481): it  *)
(* leaves insert_earthquakes before conn.commit() (476).  `store` is the   *)
(* table as the connection of the call sees it; `committed` says whether   *)
(* the rows are durable when the call is over.                             *)
RECURSIVE InsertCandidates(_, _, _)
InsertCandidates(st, cands, counted) ==
    IF cands = <<>>
    THEN [store |-> st, inserted |-> counted, raised |-> FALSE, committed |-> TRUE]
    ELSE LET c == Head(cands)
         IN CASE c.kind = "bad_timestamp" ->
                   [store |-> st, inserted |-> counted, raised |-> TRUE,
                    committed |-> FALSE]
              [] c.kind = "missing_field" ->
                   InsertCandidates(st, Tail(cands), counted)
              [] c.kind = "valid" ->
                   IF PreCheckHit(st, c.rec)
                   THEN InsertCandidates(st, Tail(cands), counted)
                   ELSE LET st2 == InsertOrIgnore(st, c.rec)
                        IN InsertCandidates(st2, Tail(cands),
                               IF st2 # st THEN Append(counted, c.rec) ELSE counted)

InitBatch ==
    /\ InitLocals
    /\ InitStamps
    /\ pc = "batch"
    /\ store \in StoresOver(ChanFeed)
    /\ arg \in BoundedSeq(Candidates, MaxBatch)
    /\ ret = <<>>
    /\ webhooks = {}
    /\ polls = <<>>
    /\ waUsers = <<>>
    /\ creds = TRUE
    /\ adminLeft = 0

(* database.py:412-483: insert_earthquakes(arg); an empty batch returns 0  *)
(* at once (422-423).                                                      *)
BatchCall ==
    /\ pc = "batch"
    /\ pc' = "batched"
    /\ LET r == InsertCandidates(store, arg, <<>>)
       IN /\ store' = r.store
          /\ ret' = <<[count |-> Len(r.inserted),
                       raised |-> r.raised,
                       committed |-> r.committed,
                       before |-> store]>>
    /\ UNCHANGED <<registry, creds, epoch, status, batch, newSeq, chanLocals,
                   pollLocals, adminLeft, arg>>

NextBatch == BatchCall

SpecBatch == InitBatch /\ [][NextBatch]_vars

(***************************************************************************)
(* Two insert_earthquakes calls at once, each on a connection of its own   *)
(* (two threads, or the service and a command-line run of parser.py), one  *)
(* SQL statement at a time.  `store` is the committed table, arg the two   *)
(* batches, and ret what the two calls and the database lock are at:       *)
(*   ret.call[c].at       index of the candidate the loop of call c is at  *)
(*   ret.call[c].phase    the statement call c runs next, or how it ended  *)
(*   ret.call[c].pending  rows call c inserted and has not committed       *)
(*   ret.call[c].counted  the records call c counted (inserted_count)      *)
(*   ret.writer           the call whose transaction holds the write lock  *)
(***************************************************************************)
Callers == {1, 2}
NoWriter == 0

(* Records of one place that differ in time and depth.                     *)
RaceRecords == {r \in InsertRecords : r.lat = 1 /\ r.lon = 1}
RaceBatches == BoundedSeq(RaceRecords, 2) \ {<<>>}

(* What a connection reads: the committed rows and its own pending ones.   *)
View(c) == store \cup ret.call[c].pending

InitRace ==
    /\ InitLocals
    /\ InitStamps
    /\ pc = "race"
    /\ store \in StoresOver(RaceRecords)
    /\ arg \in {b \in [Callers -> RaceBatches] :
                   \E i \in 1..Len(b[1]), j \in 1..Len(b[2]) : SameKey(b[1][i], b[2][j])}
    /\ ret = [call |-> [c \in Callers |->
                          [at |-> 1, phase |-> "check", pending |-> {}, counted |-> <<>>]],
              writer |-> NoWriter]
    /\ webhooks = {}
    /\ polls = <<>>
    /\ waUsers = <<>>
    /\ creds = TRUE
    /\ adminLeft = 0

raceFrame == <<registry, creds, epoch, status, batch, newSeq, chanLocals,
               pollLocals, adminLeft, arg, pc>>

(* database.py:430-441: the loop head and the pre-check SELECT of call c.  *)
RaceCheck(c) ==
    LET me == ret.call[c]
    IN /\ me.phase = "check"
       /\ ret' = [ret EXCEPT !.call[c] =
                    IF me.at > Len(arg[c]) THEN [me EXCEPT !.phase = "commit"]
                    ELSE IF PreCheckHit(View(c), arg[c][me.at])
                         THEN [me EXCEPT !.at = me.at + 1]
                         ELSE [me EXCEPT !.phase = "insert"]]
       /\ UNCHANGED <<store, raceFrame>>

(* database.py:443-467: the INSERT OR IGNORE of call c.  The statement     *)
(* needs the write lock; it is taken with the first row and kept until the *)
(* commit.                                                                 *)
RaceInsert(c) ==
    LET me == ret.call[c]
        e == arg[c][me.at]
        st2 == InsertOrIgnore(View(c), e)
    IN /\ me.phase = "insert"
       /\ ret.writer \in {NoWriter, c}
       /\ ret' = [ret EXCEPT
                    !.writer = c,
                    !.call[c] = [me EXCEPT
                        !.pending = me.pending \cup (st2 \ View(c)),
                        !.counted = IF st2 # View(c) THEN Append(me.counted, e)
                                    ELSE me.counted,
                        !.at = me.at + 1,
                        !.phase = "check"]]
       /\ UNCHANGED <<store, raceFrame>>

(* database.py:51 and 481-483: the other call holds the lock for longer    *)
(* than the timeout of 30 s; "database is locked" is a sqlite3.Error and   *)
(* leaves insert_earthquakes as an Exception.                              *)
RaceTimeout(c) ==
    LET me == ret.call[c]
    IN /\ me.phase = "insert"
       /\ ret.writer \notin {NoWriter, c}
       /\ ret' = [ret EXCEPT !.call[c] = [me EXCEPT !.phase = "raised"]]
       /\ UNCHANGED <<store, raceFrame>>

(* database.py:476-479: conn.commit() and the return of inserted_count.    *)
RaceCommit(c) ==
    LET me == ret.call[c]
    IN /\ me.phase = "commit"
       /\ store' = store \cup me.pending
       /\ ret' = [ret EXCEPT
                    !.writer = IF ret.writer = c THEN NoWriter ELSE ret.writer,
                    !.call[c] = [me EXCEPT !.pending = {}, !.phase = "returned"]]
       /\ UNCHANGED raceFrame

NextRace ==
    \/ \E c \in Callers : RaceCheck(c)
    \/ \E c \in Callers : RaceInsert(c)
    \/ \E c \in Callers : RaceTimeout(c)
    \/ \E c \in Callers : RaceCommit(c)

SpecRace == InitRace /\ [][NextRace]_vars

(***************************************************************************)
(* Cycle after cycle, each as one step, with no administration: cycles do  *)
(* not overlap, so a cycle is its fetch, its insert, the batch it reads    *)
(* back and the rounds of its fan-out.  ret keeps, for every cycle that    *)
(* inserted something, what it inserted and what it sent to which channel. *)
(***************************************************************************)
(* Feeds of rows of one place, told apart by time and depth.               *)
CycleFeeds == FeedBatches(RaceRecords)

InitCycles ==
    /\ InitLocals
    /\ InitStamps
    /\ arg = <<>>
    /\ ret = <<>>
    /\ pc = "cycles"
    /\ store = {}
    /\ webhooks \in SUBSET Channels
    /\ polls = <<>>
    /\ waUsers = <<>>
    /\ creds = TRUE
    /\ adminLeft = 0

(* main.py:55-71 and 106-167: refresh_earthquake_data on the rows `feed`.  *)
RefreshAndDispatch(feed) ==
    LET r == InsertEarthquakes(store, feed)
        new_records == Len(r.inserted)
        latest_earthquakes == GetLatestEarthquakes(r.store, new_records)
        rounds == IF webhooks = {} THEN {} ELSE 1..Len(latest_earthquakes)
    IN /\ pc = "cycles"
       /\ new_records > 0
       /\ store' = r.store
       /\ arg' = feed
       /\ ret' = Append(ret,
              [inserted |-> r.inserted,
               sent |-> {<<latest_earthquakes[i], c>> : i \in rounds, c \in webhooks}])
       /\ UNCHANGED <<registry, creds, pc, epoch, status, batch, newSeq, chanLocals,
                      pollLocals, adminLeft>>

NextCycles == \E feed \in CycleFeeds : RefreshAndDispatch(feed)

SpecCycles == InitCycles /\ [][NextCycles]_vars

(***************************************************************************)
(* The retention sweep on its own: any receipts, swept once.               *)
(***************************************************************************)
(* A dispatch leaves at most one receipt per poll and recipient, stamped   *)
(* with its time.                                                          *)
Receipts ==
    {[user |-> u, poll |-> p, at |-> t] : u \in Phones, p \in PollNames, t \in Timestamps}

InitSweep ==
    /\ InitLocals
    /\ NoDirectCall
    /\ lastSent = [c \in Channels |-> NullStamp]
    /\ userLastSent = [u \in Phones |-> NullStamp]
    /\ waMessages \in SUBSET Receipts
    /\ pc = "sweep"
    /\ store = {}
    /\ webhooks = {}
    /\ polls = <<>>
    /\ waUsers = <<>>
    /\ creds = TRUE
    /\ adminLeft = 0

(* main.py:275: db.clear_old_wa_messages().                                *)
SweepCall ==
    /\ pc = "sweep"
    /\ pc' = "swept"
    /\ waMessages' = ClearOldWaMessages(waMessages)
    /\ ret' = <<[before |-> waMessages, after |-> ClearOldWaMessages(waMessages)]>>
    /\ UNCHANGED <<store, webhooks, lastSent, polls, waUsers, userLastSent, creds,
                   epoch, status, batch, newSeq, chanLocals, pollLocals,
                   adminLeft, arg>>

NextSweep == SweepCall

SpecSweep == InitSweep /\ [][NextSweep]_vars

(***************************************************************************)
(* The channel adapters (webhooks.py) on their own: one send.              *)
(***************************************************************************)
AdapterTypes == {"discord", "zulip", "whatsapp", "generic"}

(* An endpoint string, character by character: "|" is the separator, "h"   *)
(* any other character.                                                    *)
Endpoints == BoundedSeq({"h", "|"}, MaxUrl)

(* earthquake_data: None (a test message), {"count": 1, "data": [e]} as    *)
(* fan-out passes it, or one record e.                                     *)
Payloads == {"test", "batch", "single"}

(* What requests.post does: "exception" is any requests exception; the     *)
(* others are a response by its status code and, for 200, its body.        *)
Responses ==
    {"200_success", "200_failure", "200_nojson", "201", "204", "404", "exception"}

Status(resp) ==
    CASE resp \in {"200_success", "200_failure", "200_nojson"} -> 200
      [] resp = "201" -> 201
      [] resp = "204" -> 204
      [] resp = "404" -> 404

(* str.split('|') *)
RECURSIVE Split(_)
Split(s) ==
    IF s = <<>> THEN << <<>> >>
    ELSE IF Head(s) = "|" THEN << <<>> >> \o Split(Tail(s))
    ELSE LET r == Split(Tail(s)) IN << <<Head(s)>> \o r[1] >> \o Tail(r)

Sent(result, target, auth) ==
    [result |-> result, posts |-> <<[to |-> target, auth |-> auth]>>]

(* webhooks.py:6-114: discord and send_single_earthquake.                  *)
Discord(url, payload, resp) ==
    Sent(IF resp # "exception" /\ Status(resp) = 204 THEN "true" ELSE "false",
         url, <<>>)

(* webhooks.py:185-226 *)
SendZulipMessage(url, resp) ==
    LET parts == Split(url)
        result == IF resp = "200_success" THEN "true" ELSE "false"
    IN IF Len(parts) = 3
       THEN Sent(result, parts[1], <<parts[2], parts[3]>>)
       ELSE Sent(result, url, <<>>)

(* webhooks.py:116-183 *)
Zulip(url, payload, resp) == SendZulipMessage(url, resp)

(* webhooks.py:286-337 *)
SendWhatsappMessage(url, resp) ==
    LET parts == Split(url)
    IN IF Len(parts) # 2
       THEN [result |-> "false", posts |-> <<>>]
       ELSE Sent(IF resp # "exception" /\ Status(resp) = 200 THEN "true" ELSE "false",
                 parts[1] \o <<"/messages">>, <<parts[2]>>)

(* webhooks.py:228-284 *)
Whatsapp(url, payload, resp) == SendWhatsappMessage(url, resp)

(* webhooks.py:340-374 *)
Generic(url, payload, resp) ==
    Sent(IF resp # "exception" /\ 200 <= Status(resp) /\ Status(resp) < 300
         THEN "true" ELSE "false",
         url, <<>>)

(* main.py:181-189: the adapter of a webhook type.                         *)
Adapter(type, url, payload, resp) ==
    CASE type = "discord" -> Discord(url, payload, resp)
      [] type = "zulip" -> Zulip(url, payload, resp)
      [] type = "whatsapp" -> Whatsapp(url, payload, resp)
      [] type = "generic" -> Generic(url, payload, resp)

InitAdapter ==
    /\ InitLocals
    /\ InitStamps
    /\ pc = "adapter"
    /\ arg \in [type : AdapterTypes, url : Endpoints, payload : Payloads]
    /\ ret = <<>>
    /\ store = {}
    /\ webhooks = {}
    /\ polls = <<>>
    /\ waUsers = <<>>
    /\ creds = TRUE
    /\ adminLeft = 0

(* requests.post raises (MissingSchema, InvalidURL) on a URL that does not  *)
(* begin with a scheme: here, with a character other than the separator.   *)
ValidUrl(target) == target # <<>> /\ Head(target) = "h"

(* One call adapter(webhook_url, earthquake_data), answered with resp.     *)
AdapterCall(resp) ==
    /\ pc = "adapter"
    /\ pc' = "answered"
    /\ LET r == Adapter(arg.type, arg.url, arg.payload, resp)
       IN /\ (\E i \in 1..Len(r.posts) : ~ValidUrl(r.posts[i].to)) => resp = "exception"
          /\ ret' = <<[result |-> r.result, posts |-> r.posts, resp |-> resp]>>
    /\ UNCHANGED <<store, registry, creds, epoch, status, batch, newSeq,
                   chanLocals, pollLocals, adminLeft, arg>>

NextAdapter == \E resp \in Responses : AdapterCall(resp)

SpecAdapter == InitAdapter /\ [][NextAdapter]_vars

(***************************************************************************)
(* The feed parser (parser.py) on its own: parse_data on one table.        *)
(***************************************************************************)
(* The tokens of a feed row.  A numeric token is one that matches          *)
(* \d+\.\d+; float() of it is given in tenths.                            *)
Float(tok) ==
    CASE tok = "0.0" -> 0
      [] tok = "1.4" -> 14
      [] tok = "3.5" -> 35
      [] tok = "8.9" -> 89
      [] tok = "27.6" -> 276
      [] tok = "36.9" -> 369

IsDecimal(tok) == tok \in {"0.0", "1.4", "3.5", "8.9", "27.6", "36.9"}
NotReported == "-.-"
MagTokens == {NotReported, "0.0", "1.4", "3.5"}
LatTokens == {"36.9", "abc"}
Times == {"09:05:56", "09:05:57"}
(* "Ilksel" is the label with the capital dotted I, "Ylksel" the same word *)
(* as the legacy encoding of the feed shows it.                            *)
QualityTokens == {"Ilksel", "REVIZE", "Ylksel", "Quality_Y"}

(* The text after the magnitudes: the words of the location, one space     *)
(* apart, gap spaces and the quality token.                                *)
Tails == [loc : {<<"LOCATION_X">>}, gap : {1, 2}, quality : QualityTokens]

(* A line of the table: a row of tokens, or a line of white space only.    *)
BlankLine == [kind |-> "blank"]
RowLines(times, lats, mags, tails) ==
    [kind : {"row"}, date : {<<"2025", "01", "10">>}, time : times, lat : lats,
     lon : {"27.6"}, depth : {"8.9"}, md : mags, ml : mags, mw : mags, tail : tails]

(* parser.py:94-95: the strict pattern wants two or more white-space       *)
(* characters between the location and the quality.                        *)
NumbersMatch(line) ==
    /\ IsDecimal(line.lat) /\ IsDecimal(line.lon) /\ IsDecimal(line.depth)
    /\ \A t \in {line.md, line.ml, line.mw} : t = NotReported \/ IsDecimal(t)

StrictMatch(line) == NumbersMatch(line) /\ line.tail.gap >= 2

(* parser.py:99-114: the relaxed pattern takes the rest of the line and    *)
(* splits the last word off when it is one of the two known labels.        *)
RelaxedSplit(tail) ==
    IF tail.quality \in {"Ilksel", "REVIZE"}
    THEN [location |-> tail.loc, quality |-> tail.quality]
    ELSE [location |-> Append(tail.loc, tail.quality), quality |-> "Ilksel"]

(* parser.py:129-130: the replace of the legacy-encoded capital I with dot *)
(* above, on a word.                                                       *)
Normalize(word) == IF word = "Ylksel" THEN "Ilksel" ELSE word

(* parser.py:137-140 *)
MagVal(tok) == IF tok = NotReported THEN NoMag ELSE Float(tok)

Max(S) == CHOOSE v \in S : \A w \in S : w <= v

(* None turned into zero before the maximum is taken.                      *)
PrimaryMagnitudeOrZero(md, ml, mw) ==
    Max({IF m = NoMag THEN 0 ELSE m : m \in {md, ml, mw}})

(* parser.py:142-144 *)
PrimaryMagnitude(md, ml, mw) ==
    LET magnitudes == {m \in {md, ml, mw} : m # NoMag}
    IN IF magnitudes # {} THEN Max(magnitudes) ELSE NoMag

(* parser.py:121-126 *)
Timestamp(date, time) == <<date[1], "-", date[2], "-", date[3], "T", time, "Z">>

(* parser.py:89-165: one line of the table: the records it adds, none      *)
(* when neither pattern matches.                                           *)
ParseLine(line) ==
    IF ~NumbersMatch(line) THEN <<>>
    ELSE LET split == IF StrictMatch(line)
                      THEN [location |-> line.tail.loc, quality |-> line.tail.quality]
                      ELSE RelaxedSplit(line.tail)
             md_val == MagVal(line.md)
             ml_val == MagVal(line.ml)
             mw_val == MagVal(line.mw)
         IN <<[timestamp |-> Timestamp(line.date, line.time),
               latitude |-> Float(line.lat),
               longitude |-> Float(line.lon),
               depth |-> Float(line.depth),
               md |-> md_val, ml |-> ml_val, mw |-> mw_val,
               magnitude |-> PrimaryMagnitude(md_val, ml_val, mw_val),
               location |-> [i \in 1..Len(split.location) |-> Normalize(split.location[i])],
               quality |-> Normalize(split.quality)]>>

(* parser.py:71-80: the table is the text after the header up to the first *)
(* blank line or the end.                                                  *)
RECURSIVE TableData(_)
TableData(lines) ==
    IF lines = <<>> \/ Head(lines).kind = "blank" THEN <<>>
    ELSE <<Head(lines)>> \o TableData(Tail(lines))

(* parser.py:84-167 *)
RECURSIVE ParseLines(_)
ParseLines(lines) ==
    IF lines = <<>> THEN <<>> ELSE ParseLine(Head(lines)) \o ParseLines(Tail(lines))

(* parser.py:52-167: parse_data on a text with the header in place.        *)
ParseData(lines) == [records |-> ParseLines(TableData(lines)), raised |-> FALSE]

(* One row of every kind, or a table of several lines that differ in the   *)
(* time, in the latitude token or are blank.                               *)
RichLines == RowLines(Times, LatTokens, MagTokens, Tails)
PlainLines ==
    RowLines(Times, LatTokens, {"1.4"}, {[loc |-> <<"LOCATION_X">>, gap |-> 2, quality |-> "Ilksel"]})
    \cup {BlankLine}
Tables == [1..1 -> RichLines] \cup BoundedSeq(PlainLines, MaxLines)

InitParse ==
    /\ InitLocals
    /\ InitStamps
    /\ pc = "parse"
    /\ arg \in Tables
    /\ ret = <<>>
    /\ store = {}
    /\ webhooks = {}
    /\ polls = <<>>
    /\ waUsers = <<>>
    /\ creds = TRUE
    /\ adminLeft = 0

(* parser.py:176-178: self.parse_data(raw_data).                           *)
ParseCall ==
    /\ pc = "parse"
    /\ pc' = "parsed"
    /\ ret' = <<ParseData(arg)>>
    /\ UNCHANGED <<store, registry, creds, epoch, status, batch, newSeq,
                   chanLocals, pollLocals, adminLeft, arg>>

NextParse == ParseCall

SpecParse == InitParse /\ [][NextParse]_vars

(***************************************************************************)
(* Properties of the event store (SpecInsert).                             *)
(***************************************************************************)
Calls == 1..Len(ret)

Occurrences(s, e) == Cardinality({i \in 1..Len(s) : s[i] = e})

(* C2: inserting a batch inserts each of its records at most once, and     *)
(* inserting the same batch again adds no row and reports zero.            *)
InsertIsIdempotent ==
    /\ \A k \in Calls :
          /\ \A e \in Range(arg) : Occurrences(ret[k].inserted, e) <= 1
          /\ Cardinality(ret[k].after) = Cardinality(ret[k].before) + ret[k].count
    /\ Len(ret) = 2 =>
          /\ ret[2].count = 0
          /\ ret[2].after = ret[2].before
          /\ store = ret[1].after

InsertedThenRepeated ==
    /\ pc = "twice"
    /\ ret[1].count = Len(arg)
    /\ Len(arg) = MaxBatch

(* C3: of two candidates with the same (occurred_at, latitude, longitude)  *)
(* that differ in another field, once the first is stored the second is    *)
(* not written and not counted; the stored row stays as it is.             *)
Rivals(k, j) ==
    {r \in ret[k].before : SameKey(r, arg[j]) /\ r # arg[j]}
    \cup {arg[i] : i \in {h \in 1..(j - 1) :
                               /\ SameKey(arg[h], arg[j])
                               /\ arg[h] # arg[j]
                               /\ arg[h] \in ret[k].after}}

SecondOfSameKeyIsSkipped ==
    \A k \in Calls : \A j \in 1..Len(arg) :
        Rivals(k, j) # {} =>
            /\ arg[j] \notin ret[k].after
            /\ arg[j] \notin Range(ret[k].inserted)
            /\ Rivals(k, j) \subseteq ret[k].after

FirstStoredSecondOffered ==
    /\ Len(ret) >= 1
    /\ Len(arg) = 2
    /\ SameKey(arg[1], arg[2])
    /\ arg[1].depth # arg[2].depth
    /\ ret[1].inserted = <<arg[1]>>

(* C4: a candidate is taken for a duplicate exactly when a stored record   *)
(* matches it on all three of occurred_at, latitude and longitude: here    *)
(* for the first candidate of a call, which meets the store as it was.     *)
DuplicateIffKeyMatches ==
    \A k \in Calls :
        arg # <<>> =>
            ((arg[1] \notin Range(ret[k].inserted))
                <=> (\E r \in ret[k].before : SameKey(r, arg[1])))

(* C29: the count insert_earthquakes returns is the number of rows the     *)
(* call added to the table, whatever the batch and the store; no row is    *)
(* lost or changed, and a natural key that is in the batch more than once  *)
(* is stored once and counted once.                                        *)
CountIsRowsAdded ==
    \A k \in Calls :
        /\ ret[k].before \subseteq ret[k].after
        /\ ret[k].count = Cardinality(ret[k].after \ ret[k].before)
        /\ Range(ret[k].inserted) = ret[k].after \ ret[k].before
        /\ \A e \in Range(arg) :
              /\ Cardinality({r \in ret[k].after : SameKey(r, e)}) <= 1
              /\ Cardinality({i \in 1..ret[k].count : SameKey(ret[k].inserted[i], e)}) <= 1

SameRecordTwiceCountedOnce ==
    /\ pc = "once"
    /\ Len(arg) = 2
    /\ arg[1] = arg[2]
    /\ ret[1].before = {}
    /\ ret[1].count = 1
    /\ store = {arg[1]}

(***************************************************************************)
(* Properties of insert_earthquakes on mixed batches (SpecBatch).          *)
(***************************************************************************)
(* The candidates of the batch that are valid and new: no stored row and   *)
(* no earlier valid candidate has their natural key.                       *)
ValidNew ==
    {j \in 1..Len(arg) :
        /\ arg[j].kind = "valid"
        /\ \A r \in ret[1].before : ~SameKey(r, arg[j].rec)
        /\ \A i \in 1..(j - 1) :
              arg[i].kind = "valid" => ~SameKey(arg[i].rec, arg[j].rec)}

(* C25: on a batch that mixes valid new records with duplicates and        *)
(* invalid records, insert_earthquakes does not raise, every valid new     *)
(* record is stored and committed, and their number is returned.           *)
BatchPartiallySucceeds ==
    pc = "batched" =>
        /\ ~ret[1].raised
        /\ ret[1].committed
        /\ \A j \in ValidNew : arg[j].rec \in store
        /\ ret[1].count = Cardinality(ValidNew)

(***************************************************************************)
(* Properties of two overlapping insert_earthquakes calls (SpecRace).      *)
(***************************************************************************)
CountedBy(c) == Range(ret.call[c].counted)

(* C26: however the statements of the two calls interleave, the table      *)
(* never holds two rows of one (occurred_at, latitude, longitude), neither *)
(* committed nor as a connection sees it, and no natural key is counted by *)
(* both calls, nor twice by one.                                           *)
NoDuplicateUnderRace ==
    /\ \A c \in Callers : \A r, q \in View(c) : SameKey(r, q) => r = q
    /\ \A r \in CountedBy(1), q \in CountedBy(2) : ~SameKey(r, q)
    /\ \A c \in Callers : \A i, j \in 1..Len(ret.call[c].counted) :
          SameKey(ret.call[c].counted[i], ret.call[c].counted[j]) => i = j

(* Call 2 passed the pre-check for a record whose key call 1 then          *)
(* committed with another depth, and has its INSERT still to run.          *)
PreCheckPassedThenOtherCommitted ==
    /\ ret.call[1].phase = "returned"
    /\ ret.call[2].phase = "insert"
    /\ \E r \in CountedBy(1) :
          /\ r \in store
          /\ SameKey(r, arg[2][ret.call[2].at])
          /\ r # arg[2][ret.call[2].at]

(***************************************************************************)
(* Properties of the scheduler and of dispatch (Spec).                     *)
(***************************************************************************)

(* C1: no cycle ends the scheduler: however a cycle goes, polling_service  *)
(* is still in its loop afterwards.                                        *)
SchedulerSurvives == pc # "exited"

(* C5: the batch handed to dispatch is exactly the records this cycle      *)
(* inserted, and a cycle that inserted nothing sends nothing.              *)
BatchIsNewlyInserted ==
    /\ Range(batch) = Range(newSeq)
    /\ newSeq = <<>> => chanAttempts = <<>> /\ waLog = <<>> /\ pollLog = <<>>

(* C10: dispatch returns normally: once it is over, every poll it read was *)
(* processed and control is back in polling_service.                       *)
DispatchReturnsNormally ==
    (batch # <<>> /\ pc \notin {"fanout", "pace", "polls"}) =>
        /\ pc = "done"
        /\ Len(pollLog) = Len(pollsSnap)

(***************************************************************************)
(* Properties of channel fan-out (SpecChan).                               *)
(***************************************************************************)
(* C12: a stored record stays as it was inserted: no step changes a row,   *)
(* a row leaves the store only by remove-last-earthquake, which removes    *)
(* exactly the one row of the greatest timestamp and nothing else, and a   *)
(* row that comes in does not take the place of a stored one.              *)
RecordsImmutable ==
    [][LET removed == store \ store'
           added == store' \ store
       IN /\ removed # {} =>
                /\ DeleteLastEarthquake
                /\ Cardinality(removed) = 1
                /\ added = {}
                /\ \A r \in removed : \A q \in store : q.ts <= r.ts
          /\ (DeleteLastEarthquake /\ store # {}) => removed # {}
          /\ \A r \in added : \A q \in store : ~SameKey(q, r)]_vars

NewestRemovedOthersKept ==
    /\ store # {}
    /\ \E r \in Range(newSeq) : r \notin store /\ \A q \in store : q.ts < r.ts
    /\ adminLeft < MaxAdmin

(* The rounds of send_notifications_to_webhooks that are over.             *)
RoundsDone ==
    CASE pc = "fanout" -> evIdx - 1
      [] pc = "pace" -> evIdx
      [] OTHER -> Len(batch)

(* C6: whatever the sends of a round do (succeed, fail or throw), every    *)
(* channel that was read gets its attempt for the event of the round, and  *)
(* every later event of the batch gets its round: when fan-out is over     *)
(* each event was sent once to each channel.                               *)
PartialChannelFailure ==
    /\ Range(chanAttempts) = {<<i, c>> : i \in 1..RoundsDone, c \in hooksSnap}
    /\ Len(chanAttempts) = RoundsDone * Cardinality(hooksSnap)

OneChannelThrewOthersServed ==
    /\ pc = "done"
    /\ Len(batch) = 2
    /\ hooksSnap = Channels /\ webhooks = Channels
    /\ chanOutcome = [c \in Channels |-> IF c = "c1" THEN "throw" ELSE "ok"]
    /\ lastSent["c1"] = NullStamp
    /\ lastSent["c2"] = <<epoch, 2>>
    /\ <<2, "c1">> \in Range(chanAttempts)

(* C23: a step of dispatch changes the last_sent_at of a channel if and    *)
(* only if it is a send to that channel that returned success; a failed or *)
(* throwing send leaves it as it was, and no step of dispatch registers or *)
(* removes a channel.  (Administration is the steps that use up adminLeft.)*)
StampOnlyOnSuccess ==
    [][adminLeft' = adminLeft =>
          /\ webhooks' = webhooks
          /\ \A c \in Channels :
                (lastSent'[c] # lastSent[c]) <=>
                    /\ pc = "fanout"
                    /\ c \in hooksSnap /\ c \in webhooks
                    /\ SendToSingleWebhook(chanOutcome'[c]) = "true"]_vars

OneStampedOneThrew ==
    /\ pc = "done"
    /\ Len(batch) = 1
    /\ hooksSnap = Channels /\ webhooks = Channels
    /\ chanOutcome = [c \in Channels |-> IF c = "c1" THEN "ok" ELSE "throw"]
    /\ lastSent["c1"] = <<epoch, 1>>
    /\ lastSent["c2"] = NullStamp

SendAttempts(e, c) ==
    Cardinality({k \in 1..Len(chanAttempts) : chanAttempts[k] = <<e, c>>})

(* C18: every event of the batch is sent to every channel that was read    *)
(* exactly once, one attempt per (event, channel), and the attempts are    *)
(* made event after event: no attempt for an event comes before an attempt *)
(* for an earlier one, and while a round is yet to be made nothing of it   *)
(* or of a later event was sent.                                           *)
EventAfterEvent ==
    /\ \A e \in 1..Len(batch), c \in hooksSnap :
          SendAttempts(e, c) = IF e <= RoundsDone THEN 1 ELSE 0
    /\ \A k, l \in 1..Len(chanAttempts) :
          k < l => chanAttempts[k][1] <= chanAttempts[l][1]
    /\ \A k \in 1..Len(chanAttempts) :
          chanAttempts[k][1] \in 1..Len(batch) /\ chanAttempts[k][2] \in hooksSnap

TwoEventsTwoChannelsAllFailed ==
    /\ pc = "done"
    /\ hooksSnap = Channels
    /\ chanOutcome = [c \in Channels |-> "fail"]
    /\ chanAttempts = <<<<1, "c1">>, <<1, "c2">>, <<2, "c1">>, <<2, "c2">>>>

(* Where in the order of insertion of this cycle a record stands.          *)
InsertedAt(r) == CHOOSE k \in 1..Len(newSeq) : newSeq[k] = r

(* C19: the events of a cycle go to the channels in the order in which the *)
(* cycle inserted them: of two records the cycle inserted, the one that    *)
(* was inserted first is sent first.                                       *)
SentInInsertionOrder ==
    \A k, l \in 1..Len(chanAttempts) :
        LET a == batch[chanAttempts[k][1]]
            b == batch[chanAttempts[l][1]]
        IN (k < l /\ a \in Range(newSeq) /\ b \in Range(newSeq)) =>
               InsertedAt(a) <= InsertedAt(b)

(* C20: cycles never overlap.  A cycle fetches and inserts only while no   *)
(* cycle is under way; the sleep starts only when the cycle, dispatch      *)
(* included, is over; and what a cycle read (its batch, its channels, its  *)
(* polls) stays as it is until then.                                       *)
CyclesNeverOverlap ==
    [][/\ (epoch' # epoch \/ (newSeq' # newSeq /\ newSeq' # <<>>)) => pc = "idle"
       /\ (pc # "idle" /\ pc' = "idle") => pc = "done"
       /\ pc \in {"fanout", "pace", "polls"} =>
             /\ batch' = batch /\ newSeq' = newSeq /\ hooksSnap' = hooksSnap
             /\ pc' \in {"fanout", "pace", "polls", "done", "exited"}
             /\ evIdx' \in {evIdx, evIdx + 1}]_vars

SecondCycleAfterFirstDispatched ==
    /\ epoch = 2
    /\ pc = "pace"
    /\ evIdx = 1
    /\ Len(batch) = 2
    /\ Len(chanAttempts) = Cardinality(hooksSnap)
    /\ \E c \in hooksSnap : lastSent[c] = <<2, 1>>

(***************************************************************************)
(* Properties of a cycle on a given feed (SpecGiven).                      *)
(***************************************************************************)
(* C27: a cycle whose feed text has no table region or no header ends      *)
(* reporting an error, not success; it inserts nothing and sends nothing.  *)
ExtractionErrorFailsCycle ==
    (arg.kind = "parse_error" /\ pc = "done") =>
        /\ status = "error"
        /\ newSeq = <<>> /\ batch = <<>>
        /\ chanAttempts = <<>>

(***************************************************************************)
(* Properties of the registries (SpecRegistry).                            *)
(***************************************************************************)
(* The sends the step made on behalf of the poll it processed.             *)
NewSends == SubSeq(waLog', Len(waLog) + 1, Len(waLog'))

(* C28: dispatch reads the registries anew in every cycle.  The channels   *)
(* of a dispatch are the channels registered when it starts, and they are  *)
(* the ones its rounds send to; the polls are the polls registered when    *)
(* the loop over them starts; the recipients of a poll are read when the   *)
(* poll is processed.  So what was registered before takes part, and what  *)
(* was removed before is sent nothing, in this cycle and in later ones.    *)
RegistriesReadAnew ==
    [][/\ epoch' # epoch => hooksSnap' = webhooks
       /\ (pc = "fanout" /\ chanAttempts' # chanAttempts) =>
             {chanAttempts'[k][2] : k \in (Len(chanAttempts) + 1)..Len(chanAttempts')}
                 = hooksSnap
       /\ (pc # "polls" /\ pc' = "polls") => Range(pollsSnap') = DOMAIN polls
       /\ (pc = "polls" /\ pollLog' # pollLog) =>
             LET p == pollLog'[Len(pollLog')].poll
             IN /\ p \in Range(pollsSnap)
                /\ \A i \in 1..Len(NewSends) :
                      NewSends[i].poll = p /\ NewSends[i].user \in DOMAIN waUsers
                /\ pollLog'[Len(pollLog')].end = "sent" =>
                      \A u \in DOMAIN waUsers :
                          waUsers[u] = p => \E i \in 1..Len(NewSends) : NewSends[i].user = u
      ]_vars

(* The first cycle sent to recipient u1.  Then channel c2 was added and u1 *)
(* removed: the second cycle sends to c2 and sends nothing to u1.          *)
AddedTakePartRemovedDoNot ==
    /\ epoch = 2
    /\ pc = "done"
    /\ chanAttempts = <<<<1, "c1">>, <<1, "c2">>>>
    /\ lastSent["c2"] = <<2, 1>>
    /\ [user |-> "u1", poll |-> "p1", at |-> 1] \in waMessages
    /\ DOMAIN waUsers = {}
    /\ pollLog # <<>> /\ waLog = <<>>

(***************************************************************************)
(* Properties of a run of cycles (SpecCycles).                             *)
(***************************************************************************)
(* C30: without an administrative deletion, an event is sent to a channel  *)
(* in at most one cycle: what an earlier cycle sent to a channel, no later *)
(* cycle sends to it again.                                                *)
NeverSentAgain ==
    \A j, k \in 1..Len(ret) : j < k => ret[j].sent \cap ret[k].sent = {}

(***************************************************************************)
(* Properties of subscription fan-out (SpecPoll).                          *)
(***************************************************************************)
(* The newest event of the batch dispatch was handed.                      *)
NewestOfBatch == CHOOSE r \in Range(batch) : \A q \in Range(batch) : q.ts <= r.ts

Attempts(p, u) == {i \in 1..Len(waLog) : waLog[i].poll = p /\ waLog[i].user = u}

(* The calls of send_wa_template that got as far as the threshold test:    *)
(* the credentials are set, the poll is registered and the newest event    *)
(* has a magnitude.                                                        *)
Gated == {k \in 1..Len(pollLog) :
             creds /\ pollLog[k].min # NoMag /\ NewestOfBatch.mag # NoMag}

OnlyAssignedRecipients ==
    \A k \in 1..Len(pollLog) : \A u \in pollLog[k].others :
        /\ Attempts(pollLog[k].poll, u) = {}
        /\ [user |-> u, poll |-> pollLog[k].poll, at |-> epoch] \notin waMessages

EventUsed == batch[1]

(* The newest of the records this cycle inserted.                          *)
NewestInserted ==
    CHOOSE r \in Range(newSeq) : \A q \in Range(newSeq) : q.ts <= r.ts

(* C21: subscription fan-out acts on one event only, the newest of the     *)
(* events this cycle inserted, and a recipient is sent at most one message *)
(* per poll in a cycle.                                                    *)
NewestNewEventOnly ==
    pollLog # <<>> =>
        /\ EventUsed = NewestInserted
        /\ \A p \in PollNames, u \in Phones : Cardinality(Attempts(p, u)) <= 1

(* C22: every recipient send leaves a receipt for (recipient, poll): on    *)
(* acceptance a receipt, with the recipient's last_sent_at set by this     *)
(* dispatch; otherwise a receipt all the same (marked as failed), with     *)
(* last_sent_at not set by this dispatch.                                  *)
RecipientSendRecorded ==
    \A i \in 1..Len(waLog) :
        LET s == waLog[i]
            accepted == \E j \in 1..Len(waLog) : waLog[j].user = s.user /\ waLog[j].ok
        IN /\ \E m \in waMessages : m.user = s.user /\ m.poll = s.poll /\ m.at = epoch
           /\ (s.ok /\ s.user \in DOMAIN waUsers) => userLastSent[s.user][1] = epoch
           /\ ~accepted => userLastSent[s.user][1] # epoch

(***************************************************************************)
(* Properties of the retention sweep (SpecSweep).                          *)
(***************************************************************************)
OfPair(msgs, p, u) == {m \in msgs : m.poll = p /\ m.user = u}

(* C11: right after the sweep every (poll, recipient) pair that had        *)
(* receipts keeps exactly one, the most recently created one of the pair,  *)
(* whatever the receipts of the other pairs are; no receipt appears.       *)
ReceiptRetention ==
    pc = "swept" =>
        /\ waMessages = ret[1].after
        /\ \A p \in PollNames, u \in Phones :
              LET had == OfPair(ret[1].before, p, u)
                  has == OfPair(waMessages, p, u)
              IN IF had = {} THEN has = {}
                 ELSE /\ Cardinality(has) = 1
                      /\ has \subseteq had
                      /\ \A m \in has : \A q \in had : q.at <= m.at

SweptSeveralAndOne ==
    /\ pc = "swept"
    /\ Cardinality(OfPair(ret[1].before, "p1", "u1")) >= 2
    /\ Cardinality(OfPair(ret[1].before, "p2", "u1")) = 1
    /\ OfPair(ret[1].before, "p1", "u2") = {}
    /\ waMessages # ret[1].before

(***************************************************************************)
(* Properties of the channel adapters (SpecAdapter).                       *)
(***************************************************************************)
(* The number of "|"-separated parts an endpoint of the type has to have;  *)
(* 0 for the types that take a plain URL.                                  *)
PartsExpected(type) ==
    CASE type = "zulip" -> 3
      [] type = "whatsapp" -> 2
      [] OTHER -> 0

Separators(url) == Cardinality({i \in 1..Len(url) : url[i] = "|"})

Malformed(type, url) ==
    PartsExpected(type) # 0 /\ Separators(url) + 1 # PartsExpected(type)

(* The success predicate of each transport.                                *)
Succeeds(type, resp) ==
    CASE type = "discord" -> resp = "204"
      [] type = "zulip" -> resp = "200_success"
      [] type = "whatsapp" -> resp \in {"200_success", "200_failure", "200_nojson"}
      [] type = "generic" -> resp \in {"200_success", "200_failure", "200_nojson", "201", "204"}

(* C13: every adapter returns a boolean and never raises; a transport      *)
(* error, a non-success response or a malformed endpoint gives false.      *)
AdapterFailsWithFalse ==
    pc = "answered" =>
        /\ ret[1].result \in {"true", "false"}
        /\ ~Succeeds(arg.type, ret[1].resp) => ret[1].result = "false"
        /\ Malformed(arg.type, arg.url) => ret[1].result = "false"

(* C14: the team-chat and the templated-message adapter fail closed on an  *)
(* endpoint that does not split into the expected number of parts: the     *)
(* send returns false and nothing is transmitted.                          *)
MalformedEndpointFailsClosed ==
    (pc = "answered" /\ Malformed(arg.type, arg.url)) =>
        /\ ret[1].result = "false"
        /\ \A i \in 1..Len(ret[1].posts) : ~ValidUrl(ret[1].posts[i].to)

(***************************************************************************)
(* Properties of the feed parser (SpecParse).                              *)
(***************************************************************************)
(* A line that has every token of a row in its place.                      *)
WellFormed(line) ==
    /\ line.kind = "row"
    /\ line.lat \in {"36.9"}
    /\ \A t \in {line.md, line.ml, line.mw} : t \in MagTokens

OccurredAt(line) ==
    <<line.date[1], "-", line.date[2], "-", line.date[3], "T", line.time, "Z">>

Reported(line) == {Float(t) : t \in {line.md, line.ml, line.mw} \ {NotReported}}

IsPrimaryOf(m, line) ==
    IF Reported(line) = {} THEN m = NoMag
    ELSE m \in Reported(line) /\ \A v \in Reported(line) : v <= m

(* C15: a well-formed row whose tokens are one space apart parses to       *)
(* exactly one record: occurred_at is the ISO-8601 composition of date and *)
(* time, primary_magnitude the maximum of the magnitudes present, and      *)
(* location the tail without the trailing quality token.                   *)
SingleSpacedRowParses ==
    (pc = "parsed" /\ Len(arg) = 1 /\ WellFormed(arg[1]) /\ arg[1].tail.gap = 1) =>
        /\ Len(ret[1].records) = 1
        /\ ret[1].records[1].timestamp = OccurredAt(arg[1])
        /\ IsPrimaryOf(ret[1].records[1].magnitude, arg[1])
        /\ ret[1].records[1].location = arg[1].tail.loc

(* C16: whatever malformed lines a table holds and wherever they are,      *)
(* parse returns the records of the valid lines, all of them and in feed   *)
(* order, and raises nothing.                                              *)
ValidLines == SelectSeq(arg, WellFormed)

MalformedRowIsolation ==
    pc = "parsed" =>
        /\ ~ret[1].raised
        /\ Len(ret[1].records) = Len(ValidLines)
        /\ \A i \in 1..Len(ValidLines) :
              i <= Len(ret[1].records) =>
                  ret[1].records[i].timestamp = OccurredAt(ValidLines[i])

(* C17: primary_magnitude is the maximum of the scales that are present,   *)
(* and is absent, not zero, when none is.                                  *)
MagnitudeDerivation ==
    (pc = "parsed" /\ Len(arg) = 1 /\ WellFormed(arg[1])) =>
        /\ Len(ret[1].records) = 1
        /\ IsPrimaryOf(ret[1].records[1].magnitude, arg[1])
        /\ ret[1].records[1].magnitude = 0 => 0 \in Reported(arg[1])

TwoScalesPresent ==
    /\ pc = "parsed"
    /\ Len(arg) = 1
    /\ WellFormed(arg[1])
    /\ arg[1].md = NotReported /\ arg[1].ml = "1.4" /\ arg[1].mw = "3.5"
    /\ ret[1].records[1].magnitude = 35
    /\ ret[1].records[1].md = NoMag

====
